---- MODULE Spec2Model ----
(***************************************************************************)
(* Model of streamlit_app.py: one run of main() over an uploaded CSV file. *)
(*                                                                         *)
(* A DataFrame is a record [columns, index, rows]: the column names in     *)
(* order, the row labels (pandas keeps the labels of read_csv's RangeIndex *)
(* through dropna and boolean selection) and the rows, each a function     *)
(* from column name to cell.  A cell is <<v>> for a value v and <<>> for a *)
(* missing value (NaN / NaT).  A Series is a sequence of <<label, value>>  *)
(* pairs in index order.  Text (a column name, a numeric cell of the file) *)
(* is a tuple of one-character strings.  A timestamp is a number of hours  *)
(* since the start of day 0, a date is a day number.                       *)
(***************************************************************************)
EXTENDS Integers, Sequences, FiniteSets, TLC

VARIABLES uploaded_file, data, pc, start_date, end_date, filtered_data,
          total_consumo, total_custo, consumo_diario, dia_maior_consumo,
          consumo_horario, valores

vars == <<uploaded_file, data, pc, start_date, end_date, filtered_data,
          total_consumo, total_custo, consumo_diario, dia_maior_consumo,
          consumo_horario, valores>>

\* Bounds of the model.
MaxRows == 2
MaxDay == 2

-----------------------------------------------------------------------------
\* Values

None == [none |-> TRUE]
NaN == <<>>
Some(v) == <<v>>
isnull(c) == c = <<>>
Val(c) == c[1]

Range(s) == {s[i] : i \in 1..Len(s)}

RECURSIVE SumSeq(_)
SumSeq(s) == IF Len(s) = 0 THEN 0 ELSE Head(s) + SumSeq(Tail(s))

RECURSIVE sorted(_)
\* the elements of a finite set of integers, ascending
sorted(S) ==
    IF S = {} THEN <<>>
    ELSE LET m == CHOOSE x \in S : \A y \in S : x <= y
         IN <<m>> \o sorted(S \ {m})

RECURSIVE gcd(_, _)
gcd(a, b) == IF b = 0 THEN a ELSE gcd(b, a % b)

-----------------------------------------------------------------------------
\* Text

UpperCase == <<"A", "C", "D", "H", "K", "L", "M", "N", "O", "R", "S", "T", "U", "W">>
LowerCase == <<"a", "c", "d", "h", "k", "l", "m", "n", "o", "r", "s", "t", "u", "w">>

upper(ch) ==
    IF \E i \in 1..Len(LowerCase) : LowerCase[i] = ch
    THEN UpperCase[CHOOSE i \in 1..Len(LowerCase) : LowerCase[i] = ch]
    ELSE ch

lower(ch) ==
    IF \E i \in 1..Len(UpperCase) : UpperCase[i] = ch
    THEN LowerCase[CHOOSE i \in 1..Len(UpperCase) : UpperCase[i] = ch]
    ELSE ch

RECURSIVE lstrip(_)
lstrip(s) == IF Len(s) > 0 /\ Head(s) = " " THEN lstrip(Tail(s)) ELSE s

RECURSIVE rstrip(_)
rstrip(s) ==
    IF Len(s) > 0 /\ s[Len(s)] = " " THEN rstrip(SubSeq(s, 1, Len(s) - 1)) ELSE s

strip(s) == rstrip(lstrip(s))

replace(s, old, new) == [i \in 1..Len(s) |-> IF s[i] = old THEN new ELSE s[i]]

capitalize(s) == [i \in 1..Len(s) |-> IF i = 1 THEN upper(s[i]) ELSE lower(s[i])]

\* col.strip().replace(" ", "_").capitalize()
normalize_column(col) == capitalize(replace(strip(col), " ", "_"))

Data_hora == <<"D", "a", "t", "a", "/", "h", "o", "r", "a">>
Consumo_kwh == <<"C", "o", "n", "s", "u", "m", "o", "_", "k", "w", "h">>
Custo_total == <<"C", "u", "s", "t", "o", "_", "t", "o", "t", "a", "l">>
Dia == <<"D", "i", "a">>
Hora == <<"H", "o", "r", "a">>

required_columns == <<Data_hora, Consumo_kwh, Custo_total>>

-----------------------------------------------------------------------------
\* Cell conversions

Digits == <<"0", "1", "2", "3", "4", "5", "6", "7", "8", "9">>

isdigit(ch) == \E i \in 1..10 : Digits[i] = ch
digit(ch) == (CHOOSE i \in 1..10 : Digits[i] = ch) - 1

RECURSIVE decimal(_)
\* the value of a non-empty tuple of digits
decimal(s) ==
    IF Len(s) = 1 THEN digit(s[1])
    ELSE 10 * decimal(SubSeq(s, 1, Len(s) - 1)) + digit(s[Len(s)])

\* pd.to_numeric(cell, errors='coerce'): an optionally signed integer, else NaN
to_numeric(cell) ==
    LET neg == Len(cell) > 0 /\ cell[1] = "-"
        body == IF neg THEN Tail(cell) ELSE cell
    IN IF Len(body) > 0 /\ \A i \in 1..Len(body) : isdigit(body[i])
       THEN Some(IF neg THEN 0 - decimal(body) ELSE decimal(body))
       ELSE NaN

\* pd.to_datetime(cell, errors='coerce'): the text "DD HH" is day DD of the
\* month at HH o'clock; anything that is no date and time is NaT
to_datetime(cell) ==
    IF /\ Len(cell) = 5
       /\ cell[3] = " "
       /\ \A i \in {1, 2, 4, 5} : isdigit(cell[i])
       /\ decimal(SubSeq(cell, 1, 2)) \in 1..31
       /\ decimal(SubSeq(cell, 4, 5)) \in 0..23
    THEN Some(decimal(SubSeq(cell, 1, 2)) * 24 + decimal(SubSeq(cell, 4, 5)))
    ELSE NaN

\* Timestamp.date(), Series.dt.date
date(ts) == ts \div 24
\* Series.dt.hour
hour(ts) == ts % 24
\* pd.to_datetime(d) of a datetime.date d: midnight of that day
date_to_datetime(d) == d * 24

-----------------------------------------------------------------------------
\* DataFrame and Series operations

\* data[name]: the column as a Series
column(df, name) == [i \in 1..Len(df.rows) |-> <<df.index[i], df.rows[i][name]>>]

\* Series.sum(): missing values are skipped, the sum of nothing is 0
sum(series) ==
    SumSeq([i \in 1..Len(series) |->
               IF isnull(series[i][2]) THEN 0 ELSE Val(series[i][2])])

\* Series.min() / Series.max(): NaT for an empty column
min(series) ==
    IF Len(series) = 0 THEN NaN
    ELSE Some(CHOOSE x \in {Val(series[i][2]) : i \in 1..Len(series)} :
                 \A i \in 1..Len(series) : x <= Val(series[i][2]))

max(series) ==
    IF Len(series) = 0 THEN NaN
    ELSE Some(CHOOSE x \in {Val(series[i][2]) : i \in 1..Len(series)} :
                 \A i \in 1..Len(series) : x >= Val(series[i][2]))

\* series >= value, series <= value: a comparison with NaT is False
ge(a, b) == ~isnull(a) /\ ~isnull(b) /\ Val(a) >= Val(b)
le(a, b) == ~isnull(a) /\ ~isnull(b) /\ Val(a) <= Val(b)

\* between with the right end left out
between_open(x, left, right) == left <= x /\ x < right

\* Series.between(left, right), inclusive on both sides
between(x, left, right) == left <= x /\ x <= right

\* the value a boolean Series holds for a row label
at(mask, label) == mask[CHOOSE i \in 1..Len(mask) : mask[i][1] = label][2]

\* data[mask], data.loc[mask]: the rows whose label the boolean Series marks
\* True, in order, each keeping its label
getitem(df, mask) ==
    LET pos == sorted({i \in 1..Len(df.rows) : at(mask, df.index[i])})
    IN [columns |-> df.columns,
        index |-> [k \in 1..Len(pos) |-> df.index[pos[k]]],
        rows |-> [k \in 1..Len(pos) |-> df.rows[pos[k]]]]

\* dropna(how='all'): a row goes only when every cell of the subset is missing
dropna_all(df, subset) ==
    getitem(df, [i \in 1..Len(df.rows) |->
                    <<df.index[i], \E c \in subset : ~isnull(df.rows[i][c])>>])

\* data.dropna(subset=...)
dropna(df, subset) ==
    getitem(df, [i \in 1..Len(df.rows) |->
                    <<df.index[i], \A c \in subset : ~isnull(df.rows[i][c])>>])

\* data[name] = values: a new column goes last, an existing one is overwritten
setitem(df, name, values) ==
    [columns |-> IF name \in Range(df.columns) THEN df.columns
                 ELSE Append(df.columns, name),
     index |-> df.index,
     rows |-> [i \in 1..Len(df.rows) |->
                  [c \in (DOMAIN df.rows[i]) \cup {name} |->
                      IF c = name THEN values[i] ELSE df.rows[i][c]]]]

\* the values of column col in the rows whose by-column holds key
group(df, by, col, key) ==
    LET pos == sorted({i \in 1..Len(df.rows) : Val(df.rows[i][by]) = key})
    IN [k \in 1..Len(pos) |-> Val(df.rows[pos[k]][col])]

\* the group keys of data.groupby(by): sorted ascending
group_keys(df, by) == sorted({Val(df.rows[i][by]) : i \in 1..Len(df.rows)})

\* data.groupby(by)[col].sum()
groupby_sum(df, by, col) ==
    LET keys == group_keys(df, by)
    IN [k \in 1..Len(keys) |-> <<keys[k], SumSeq(group(df, by, col, keys[k]))>>]

\* the total in place of the mean
mean_total(values) == [num |-> SumSeq(values), den |-> 1]

\* the mean of a non-empty sequence of numbers, as a fraction in lowest terms
mean(values) ==
    LET s == SumSeq(values)
        n == Len(values)
        g == gcd(IF s < 0 THEN 0 - s ELSE s, n)
    IN [num |-> s \div g, den |-> n \div g]

\* data.groupby(by)[col].mean()
groupby_mean(df, by, col) ==
    LET keys == group_keys(df, by)
    IN [k \in 1..Len(keys) |-> <<keys[k], mean(group(df, by, col, keys[k]))>>]

\* the label of the last occurrence of the maximum
idxmax_last(series) ==
    LET i == CHOOSE i \in 1..Len(series) :
                 /\ \A j \in 1..Len(series) : series[j][2] <= series[i][2]
                 /\ \A j \in (i + 1)..Len(series) : series[j][2] < series[i][2]
    IN series[i][1]

\* Series.idxmax() of a non-empty Series: the label of the first occurrence of
\* the maximum
idxmax(series) ==
    LET i == CHOOSE i \in 1..Len(series) :
                 /\ \A j \in 1..Len(series) : series[j][2] <= series[i][2]
                 /\ \A j \in 1..(i - 1) : series[j][2] < series[i][2]
    IN series[i][1]

-----------------------------------------------------------------------------
\* The functions of streamlit_app.py

\* pd.read_csv: the header as read, a RangeIndex from 0, the cells by position
read_csv(file) ==
    [columns |-> file.columns,
     index |-> [i \in 1..Len(file.rows) |-> i - 1],
     rows |-> file.rows]

\* load_data with data.reindex(columns=required_columns) in place of the check
\* of the header: an absent column is filled with NaN and the load goes on
load_data_reindex(file) ==
    IF file = None THEN None
    ELSE
      LET raw == read_csv(file)
          columns == [i \in 1..Len(raw.columns) |-> normalize_column(raw.columns[i])]
          position(c) == CHOOSE i \in 1..Len(columns) : columns[i] = c
          cell(r, c) == IF c \in Range(columns) THEN raw.rows[r][position(c)] ELSE <<>>
          converted ==
            [columns |-> required_columns,
             index |-> raw.index,
             rows |-> [r \in 1..Len(raw.rows) |->
                         [c \in Range(required_columns) |->
                             IF c = Data_hora THEN to_datetime(cell(r, c))
                             ELSE to_numeric(cell(r, c))]]]
      IN dropna(converted, {Data_hora, Consumo_kwh, Custo_total})

\* Selecting a required column that occurs twice after normalisation yields a
\* two-column frame, on which pd.to_datetime / pd.to_numeric raise; load_data's
\* except clause turns the exception into None.
load_data(file) ==
    IF file = None THEN None
    ELSE
      LET raw == read_csv(file)
          columns == [i \in 1..Len(raw.columns) |-> normalize_column(raw.columns[i])]
          count(c) == Cardinality({i \in 1..Len(columns) : columns[i] = c})
          position(c) == CHOOSE i \in 1..Len(columns) : columns[i] = c
          converted ==
            [columns |-> required_columns,
             index |-> raw.index,
             rows |-> [r \in 1..Len(raw.rows) |->
                         [c \in Range(required_columns) |->
                             IF c = Data_hora
                             THEN to_datetime(raw.rows[r][position(c)])
                             ELSE to_numeric(raw.rows[r][position(c)])]]]
      IN IF ~(Range(required_columns) \subseteq Range(columns)) THEN None
         ELSE IF \E c \in Range(required_columns) : count(c) > 1 THEN None
         ELSE dropna(converted, {Data_hora, Consumo_kwh, Custo_total})

\* the two comparisons joined by | in place of &
display_filtered_data_or(df, start, end) ==
    getitem(df, [i \in 1..Len(df.rows) |->
                    <<df.index[i],
                      ge(df.rows[i][Data_hora], start) \/ le(df.rows[i][Data_hora], end)>>])

\* start_date and end_date are Timestamps already (main converts them), so the
\* pd.to_datetime calls of this function leave them as they are
display_filtered_data(df, start, end) ==
    getitem(df, [i \in 1..Len(df.rows) |->
                    <<df.index[i],
                      ge(df.rows[i][Data_hora], start) /\ le(df.rows[i][Data_hora], end)>>])

\* the timestamps themselves in place of their dates
Dia_of_timestamp(df) == [i \in 1..Len(df.rows) |-> Some(Val(df.rows[i][Data_hora]))]

\* data['Data/hora'].dt.date
Dia_of(df) == [i \in 1..Len(df.rows) |-> Some(date(Val(df.rows[i][Data_hora])))]
\* data['Data/hora'].dt.hour
Hora_of(df) == [i \in 1..Len(df.rows) |-> Some(hour(Val(df.rows[i][Data_hora])))]

\* data, as the call leaves the caller's frame; raised: idxmax of an empty
\* Series raises ValueError, after the column was added
plot_consumo_por_dia(df) ==
    LET with_dia == setitem(df, Dia, Dia_of(df))
        diario == groupby_sum(with_dia, Dia, Consumo_kwh)
    IN [data |-> with_dia,
        consumo_diario |-> diario,
        raised |-> Len(diario) = 0,
        dia_maior_consumo |-> IF Len(diario) = 0 THEN NaN ELSE Some(idxmax(diario))]

plot_consumo_horario_medio(df) ==
    LET with_hora == setitem(df, Hora, Hora_of(df))
    IN [data |-> with_hora,
        consumo_horario |-> groupby_mean(with_hora, Hora, Consumo_kwh)]

\* data['Hora'].between(left, right), a boolean Series over the frame's index
hora_between(df, left, right) ==
    [i \in 1..Len(df.rows) |->
        <<df.index[i], between(Val(df.rows[i][Hora]), left, right)>>]

\* ~mask
invert(mask) == [i \in 1..Len(mask) |-> <<mask[i][1], ~mask[i][2]>>]

plot_distribuicao_consumo(df) ==
    LET with_hora == setitem(df, Hora, Hora_of(df))
        pico_consumo ==
            sum(column(getitem(with_hora, hora_between(with_hora, 18, 23)), Consumo_kwh))
        noturno_consumo ==
            sum(column(getitem(with_hora, hora_between(with_hora, 0, 5)), Consumo_kwh))
        outros_consumo ==
            sum(column(getitem(getitem(with_hora, invert(hora_between(with_hora, 0, 5))),
                               invert(hora_between(with_hora, 18, 23))),
                       Consumo_kwh))
    IN [data |-> with_hora,
        valores |-> <<pico_consumo, noturno_consumo, outros_consumo>>]

-----------------------------------------------------------------------------
\* The uploaded files

\* the hours of the day that timestamps of the files take: both ends of every
\* band of plot_distribuicao_consumo
HourSamples == {0, 5, 6, 17, 18, 23}

\* A header is a sequence of <<name as written, what the column holds>>.
ExactHeader ==
    << <<Data_hora, "timestamp">>, <<Consumo_kwh, "consumption">>, <<Custo_total, "cost">> >>

\* " data/hora", "CONSUMO KWH", "Custo total ", in another order
LooseHeader ==
    << <<<<"C", "u", "s", "t", "o", " ", "t", "o", "t", "a", "l", " ">>, "cost">>,
       <<<<" ", "d", "a", "t", "a", "/", "h", "o", "r", "a">>, "timestamp">>,
       <<<<"C", "O", "N", "S", "U", "M", "O", " ", "K", "W", "H">>, "consumption">> >>

\* no cost column
NoCostHeader ==
    << <<Data_hora, "timestamp">>, <<Consumo_kwh, "consumption">> >>

\* the cost column under another name
OtherCostHeader ==
    << <<Data_hora, "timestamp">>, <<Consumo_kwh, "consumption">>,
       <<<<"C", "u", "s", "t", "o">>, "cost">> >>

\* "Custo_total" and "custo total": one name after normalisation
TwiceCostHeader ==
    << <<Data_hora, "timestamp">>, <<Consumo_kwh, "consumption">>,
       <<Custo_total, "cost">>,
       <<<<"c", "u", "s", "t", "o", " ", "t", "o", "t", "a", "l">>, "other">> >>

Headers == {ExactHeader, LooseHeader, NoCostHeader, OtherCostHeader, TwiceCostHeader}

\* the text of a timestamp cell: two digits of day, a space, two digits of hour
timestamp_text(d, h) ==
    <<Digits[(d \div 10) + 1], Digits[(d % 10) + 1], " ",
      Digits[(h \div 10) + 1], Digits[(h % 10) + 1]>>

\* rows with cells that do and do not parse
MixedRows ==
    [timestamp : {<<>>, timestamp_text(1, 24), timestamp_text(1, 19)},
     consumption : {<<"x">>, <<"3">>},
     cost : {<<>>, <<"-", "4">>},
     other : {<<"7">>}]

\* rows that parse: day 1 at every sample hour, the later days at midnight and
\* at 18 o'clock
CleanRows ==
    [timestamp : {timestamp_text(1, h) : h \in HourSamples}
                 \cup {timestamp_text(d, h) : d \in 2..MaxDay, h \in {0, 18}},
     consumption : {<<"1">>, <<"2">>},
     cost : {<<"1", "0">>},
     other : {<<"7">>}]

SeqsUpTo(S, n) == UNION {[1..k -> S] : k \in 0..n}

csv(header, rows) ==
    [columns |-> [i \in 1..Len(header) |-> header[i][1]],
     rows |-> [r \in 1..Len(rows) |->
                  [i \in 1..Len(header) |-> rows[r][header[i][2]]]]]

Files ==
    {csv(h, rows) : h \in Headers, rows \in SeqsUpTo(MixedRows, MaxRows)}
    \cup {csv(ExactHeader, rows) : rows \in SeqsUpTo(CleanRows, MaxRows)}

-----------------------------------------------------------------------------
\* main()

Init ==
    /\ uploaded_file \in Files \cup {None}
    /\ data = None
    /\ pc = "start"
    /\ start_date = NaN
    /\ end_date = NaN
    /\ filtered_data = None
    /\ total_consumo = NaN
    /\ total_custo = NaN
    /\ consumo_diario = <<>>
    /\ dia_maior_consumo = NaN
    /\ consumo_horario = <<>>
    /\ valores = <<>>

\* if uploaded_file is not None: ... (nothing else happens)
NoUpload ==
    /\ pc = "start"
    /\ uploaded_file = None
    /\ pc' = "done"
    /\ UNCHANGED <<uploaded_file, data, start_date, end_date, filtered_data,
                   total_consumo, total_custo, consumo_diario, dia_maior_consumo,
                   consumo_horario, valores>>

\* data = load_data(uploaded_file); if data is not None: ...
Load ==
    /\ pc = "start"
    /\ uploaded_file # None
    /\ data' = load_data(uploaded_file)
    /\ pc' = IF data' = None THEN "done" ELSE "tab1"
    /\ UNCHANGED <<uploaded_file, start_date, end_date, filtered_data,
                   total_consumo, total_custo, consumo_diario, dia_maior_consumo,
                   consumo_horario, valores>>

\* Timestamp.date() of a column's minimum or maximum; NaT stays NaT
default_date(t) == IF isnull(t) THEN NaN ELSE Some(date(Val(t)))

\* st.date_input(label, default): the default or the day the user selects
date_input(default) == {Some(d) : d \in 1..MaxDay} \cup {default}

\* pd.to_datetime(d) of the date read from the widget
to_timestamp(d) == IF isnull(d) THEN NaN ELSE Some(date_to_datetime(Val(d)))

\* with tab1: the date inputs, the filter and the two totals
Tab1 ==
    /\ pc = "tab1"
    /\ \E s \in date_input(default_date(min(column(data, Data_hora)))),
          e \in date_input(default_date(max(column(data, Data_hora)))) :
          /\ start_date' = to_timestamp(s)
          /\ end_date' = to_timestamp(e)
    /\ filtered_data' = display_filtered_data(data, start_date', end_date')
    /\ total_consumo' = Some(sum(column(filtered_data', Consumo_kwh)))
    /\ total_custo' = Some(sum(column(filtered_data', Custo_total)))
    /\ pc' = "tab2_col1"
    /\ UNCHANGED <<uploaded_file, data, consumo_diario, dia_maior_consumo,
                   consumo_horario, valores>>

\* with col1: plot_consumo_por_dia(data); the exception of idxmax ends the run
Tab2Col1 ==
    /\ pc = "tab2_col1"
    /\ LET r == plot_consumo_por_dia(data)
       IN /\ data' = r.data
          /\ consumo_diario' = r.consumo_diario
          /\ dia_maior_consumo' = r.dia_maior_consumo
          /\ pc' = IF r.raised THEN "raised" ELSE "tab2_col2"
    /\ UNCHANGED <<uploaded_file, start_date, end_date, filtered_data,
                   total_consumo, total_custo, consumo_horario, valores>>

\* with col2: plot_consumo_horario_medio(data)
Tab2Col2 ==
    /\ pc = "tab2_col2"
    /\ LET r == plot_consumo_horario_medio(data)
       IN /\ data' = r.data
          /\ consumo_horario' = r.consumo_horario
    /\ pc' = "tab3"
    /\ UNCHANGED <<uploaded_file, start_date, end_date, filtered_data,
                   total_consumo, total_custo, consumo_diario, dia_maior_consumo,
                   valores>>

\* with tab3: plot_distribuicao_consumo(data)
Tab3 ==
    /\ pc = "tab3"
    /\ LET r == plot_distribuicao_consumo(data)
       IN /\ data' = r.data
          /\ valores' = r.valores
    /\ pc' = "done"
    /\ UNCHANGED <<uploaded_file, start_date, end_date, filtered_data,
                   total_consumo, total_custo, consumo_diario, dia_maior_consumo,
                   consumo_horario>>

Next == NoUpload \/ Load \/ Tab1 \/ Tab2Col1 \/ Tab2Col2 \/ Tab3

Spec == Init /\ [][Next]_vars

-----------------------------------------------------------------------------
\* What the properties speak of, stated over the state alone

\* load_data returned a frame
Loaded == pc # "start" /\ data # None

\* load_data has just returned
AfterLoad == pc = "tab1" \/ (pc = "done" /\ uploaded_file # None /\ data = None)

\* the timestamps and consumptions of the loaded records, in order
Timestamps == [i \in 1..Len(data.rows) |-> Val(data.rows[i][Data_hora])]
Consumptions == [i \in 1..Len(data.rows) |-> Val(data.rows[i][Consumo_kwh])]

DayOf(ts) == ts \div 24
HourOf(ts) == ts % 24

\* the records of day d, of hour h, and the consumption of a set of records
OnDay(d) == {i \in 1..Len(data.rows) : DayOf(Timestamps[i]) = d}
AtHour(h) == {i \in 1..Len(data.rows) : HourOf(Timestamps[i]) = h}

RECURSIVE ConsumptionOf(_)
ConsumptionOf(I) ==
    IF I = {} THEN 0
    ELSE LET i == CHOOSE i \in I : TRUE
         IN Consumptions[i] + ConsumptionOf(I \ {i})

Days == {DayOf(Timestamps[i]) : i \in 1..Len(data.rows)}
Hours == {HourOf(Timestamps[i]) : i \in 1..Len(data.rows)}

\* the names of the file's header after normalisation
HeaderNames ==
    {normalize_column(uploaded_file.columns[i]) : i \in 1..Len(uploaded_file.columns)}

TimesInHeader(c) ==
    Cardinality({i \in 1..Len(uploaded_file.columns) :
                    normalize_column(uploaded_file.columns[i]) = c})

Required == {Data_hora, Consumo_kwh, Custo_total}

\* the parsed cells of row r of the file, and the rows in which all three parse
FileCell(r, c) ==
    uploaded_file.rows[r][CHOOSE i \in 1..Len(uploaded_file.columns) :
                             normalize_column(uploaded_file.columns[i]) = c]

ParsedRow(r) ==
    [c \in Required |->
        IF c = Data_hora THEN to_datetime(FileCell(r, c)) ELSE to_numeric(FileCell(r, c))]

ValidRows ==
    {r \in 1..Len(uploaded_file.rows) : \A c \in Required : ParsedRow(r)[c] # <<>>}

\* data is the valid rows of the file, in the order of the file, and nothing else
LoadedValidRows ==
    /\ data # None
    /\ Len(data.rows) = Cardinality(ValidRows)
    /\ Len(data.rows) <= Len(uploaded_file.rows)
    /\ \A k \in 1..Len(data.rows) :
          /\ data.index[k] + 1 \in ValidRows
          /\ \A c \in Required : data.rows[k][c] = ParsedRow(data.index[k] + 1)[c]
          /\ \A j \in 1..(k - 1) : data.index[j] < data.index[k]

-----------------------------------------------------------------------------
\* C1: with start_date = end_date = D, display_filtered_data returns exactly the
\* records whose date is D, whatever their time of day.
C1_SameDayFilterKeepsWholeDay ==
    (pc = "tab2_col1" /\ start_date # <<>> /\ start_date = end_date) =>
        LET D == DayOf(Val(start_date))
        IN /\ Len(filtered_data.rows) = Cardinality(OnDay(D))
           /\ \A k \in 1..Len(filtered_data.rows) :
                 DayOf(Val(filtered_data.rows[k][Data_hora])) = D

\* C2: when a required column is absent after normalisation, load_data fails
\* for the whole load and returns no record sequence, whatever the rows hold.
C2_MissingColumnFailsLoad ==
    (AfterLoad /\ ~(Required \subseteq HeaderNames)) =>
        (data = None /\ pc = "done")

\* the rows of a file without cost column whose timestamp and consumption parse
ValidRowsWithoutCost ==
    {r \in 1..Len(uploaded_file.rows) :
        /\ to_datetime(FileCell(r, Data_hora)) # <<>>
        /\ to_numeric(FileCell(r, Consumo_kwh)) # <<>>}

C2_Witness ==
    /\ pc = "done"
    /\ uploaded_file # None
    /\ Custo_total \notin HeaderNames
    /\ {Data_hora, Consumo_kwh} \subseteq HeaderNames
    /\ ValidRowsWithoutCost # {}
    /\ data = None

C4_DailyTotalsConserve ==
    (Loaded /\ pc \in {"tab2_col2", "tab3", "done"}) =>
        /\ Len(consumo_diario) = Cardinality(Days)
        /\ {consumo_diario[k][1] : k \in 1..Len(consumo_diario)} = Days
        /\ SumSeq([k \in 1..Len(consumo_diario) |-> consumo_diario[k][2]])
              = SumSeq(Consumptions)

C4_Witness ==
    /\ pc = "tab2_col2"
    /\ Len(data.rows) = 2
    /\ Len(consumo_diario) = 1
    /\ Timestamps[1] # Timestamps[2]
    /\ consumo_diario[1][2] = 3

\* C5: every record's consumption goes into exactly one of Peak (hours 18..23),
\* Night (hours 0..5) and Other (hours 6..17), so the three band totals sum to
\* the total consumption.
C5_BandsPartition ==
    /\ \A h \in 0..23 :
          Cardinality({b \in {<<18, 23>>, <<0, 5>>, <<6, 17>>} : b[1] <= h /\ h <= b[2]}) = 1
    /\ (pc = "done" /\ Loaded) =>
          /\ valores[1] = ConsumptionOf(UNION {AtHour(h) : h \in 18..23})
          /\ valores[2] = ConsumptionOf(UNION {AtHour(h) : h \in 0..5})
          /\ valores[3] = ConsumptionOf(UNION {AtHour(h) : h \in 6..17})
          /\ valores[1] + valores[2] + valores[3] = SumSeq(Consumptions)

C5_Witness ==
    /\ pc = "done"
    /\ Loaded
    /\ Hours = {23, 6}
    /\ valores = <<2, 0, 1>>

\* C6: when all required columns are present and every row is dropped, the run
\* does not fail: every step main executes on the loaded data completes, with
\* empty outputs and an absent maximum day.
C6_EmptyLoadRunCompletes ==
    (Loaded /\ Len(uploaded_file.rows) > 0 /\ Len(data.rows) = 0) => pc # "raised"

\* C7: no aggregator mutates its input: after the calls that returned, the
\* record sequence is the output of load_data, columns and values.
C7_AggregatorsKeepInput ==
    (Loaded /\ pc \in {"tab2_col2", "tab3", "done"}) =>
        data = load_data(uploaded_file)

\* C8: with start_date > end_date and a non-empty record sequence,
\* display_filtered_data returns an empty sequence.
C8_ReversedRangeIsEmpty ==
    (/\ Loaded
     /\ pc # "tab1"
     /\ Len(data.rows) > 0
     /\ start_date # <<>>
     /\ end_date # <<>>
     /\ Val(start_date) > Val(end_date)) =>
        (filtered_data # None /\ Len(filtered_data.rows) = 0)

C8_Witness ==
    /\ pc = "tab2_col1"
    /\ Len(data.rows) = 2
    /\ Days = {1, 2}
    /\ start_date = <<48>>
    /\ end_date = <<24>>
    /\ filtered_data.rows = <<>>

\* C9: the hourly aggregation has one entry per hour of day that occurs, in
\* ascending order of hour, holding the consumption of the records of that hour
\* on any date divided by their number; an hour that occurs once with
\* consumption v has average v.
C9_HourlyMeans ==
    (pc \in {"tab3", "done"} /\ Loaded) =>
        /\ Len(consumo_horario) = Cardinality(Hours)
        /\ \A k \in 1..Len(consumo_horario) :
              LET h == consumo_horario[k][1]
                  avg == consumo_horario[k][2]
              IN /\ h \in Hours
                 /\ h \in 0..23
                 /\ \A j \in 1..(k - 1) : consumo_horario[j][1] < h
                 /\ avg.den > 0
                 /\ avg.num * Cardinality(AtHour(h)) = ConsumptionOf(AtHour(h)) * avg.den
                 /\ \A i \in AtHour(h) :
                       AtHour(h) = {i} => avg = [num |-> Consumptions[i], den |-> 1]

C9_Witness ==
    /\ pc = "tab3"
    /\ Len(data.rows) = 2
    /\ Days = {1, 2}
    /\ Hours = {18}
    /\ consumo_horario = << <<18, [num |-> 3, den |-> 2]>> >>

\* C10: the maximum day is a date whose daily total is at least every other
\* daily total, and among the dates that share the maximum it is the earliest,
\* whatever the order of the input rows.
C10_MaxDayIsEarliestMaximum ==
    (Loaded /\ pc \in {"tab2_col2", "tab3", "done"}) =>
        /\ dia_maior_consumo # <<>>
        /\ Val(dia_maior_consumo) \in Days
        /\ \A d \in Days :
              /\ ConsumptionOf(OnDay(d)) <= ConsumptionOf(OnDay(Val(dia_maior_consumo)))
              /\ ConsumptionOf(OnDay(d)) = ConsumptionOf(OnDay(Val(dia_maior_consumo)))
                    => Val(dia_maior_consumo) <= d

C10_Witness ==
    /\ pc = "tab2_col2"
    /\ Len(data.rows) = 2
    /\ DayOf(Timestamps[1]) = 2
    /\ DayOf(Timestamps[2]) = 1
    /\ Consumptions[1] = Consumptions[2]
    /\ dia_maior_consumo = <<1>>

====
